---- MODULE Spec2Model ----
(***************************************************************************)
(* A model of the relative-path crate (src/src/lib.rs).                    *)
(*                                                                         *)
(* A `str` is modelled as the sequence of its UTF-8 bytes, so that byte    *)
(* offsets (CharIndices, slicing, len) and the byte-wise ordering of str   *)
(* are what they are in the program.  Positions are 0-based as in Rust;    *)
(* byte i of s is s[i + 1].                                                *)
(***************************************************************************)
EXTENDS Integers, Sequences, FiniteSets, TLC

VARIABLES
    components,   \* a Components value: [iter, source, last_slash, offset]
    item,         \* what the last call of Components::next returned
    yielded,      \* the strings returned as Some(..) so far, in order
    calls,        \* number of calls of Components::next made on `components`
    inner,        \* RelativePathBuf.inner of the buffer under manipulation
    pushed,       \* the arguments of the push calls made since new()
    last          \* the last operation applied, its arguments and its result

vars == <<components, item, yielded, calls, inner, pushed, last>>

----------------------------------------------------------------------------
(* Bounds of the model and the input alphabets.                            *)

MaxLen == 5      \* characters of a source text handed to the iterator
MaxArg == 2      \* characters of an argument of push / join
MaxInner == 6    \* bytes a buffer may hold before push is no longer tried
MaxPushes == 3   \* pushes recorded after new()
CmpLen == 3      \* characters of the paths that are compared
ThirdLen == 2    \* characters of the third path of a transitivity check

SEP == 47        \* const SEP: char = '/'

\* The characters inputs are built from, each as its UTF-8 encoding:
\* '/', 'a' and the two-byte U+00E9.
Chars == {<<SEP>>, <<97>>, <<195, 169>>}
\* One-byte characters only: '.', '/', 'a' ('.' sorts before '/').
Ascii == {<<46>>, <<SEP>>, <<97>>}

RECURSIVE StrsOfLen(_, _)
StrsOfLen(Cs, n) ==
    IF n = 0 THEN {<<>>}
    ELSE {c \o s : c \in Cs, s \in StrsOfLen(Cs, n - 1)}

Strs(Cs, n) == UNION {StrsOfLen(Cs, k) : k \in 0..n}

----------------------------------------------------------------------------
(* str primitives used by the program.                                     *)

\* Width in bytes of the UTF-8 character whose first byte is b (one- and
\* two-byte encodings).
Utf8Width(b) == IF b < 128 THEN 1 ELSE 2

\* The character (code point) that starts at byte i of s, for the one- and
\* two-byte encodings the inputs use.
CharAt(s, i) ==
    IF s[i + 1] < 128 THEN s[i + 1]
    ELSE (s[i + 1] - 192) * 64 + (s[i + 1 + 1] - 128)

\* str::is_char_boundary
IsCharBoundary(s, i) ==
    \/ i = 0
    \/ i = Len(s)
    \/ i < Len(s) /\ (s[i + 1] < 128 \/ s[i + 1] >= 192)

\* &s[start..end]: the bytes start..end-1, or a panic.
Slice(s, start, end) ==
    IF start <= end /\ end <= Len(s) /\ IsCharBoundary(s, start) /\ IsCharBoundary(s, end)
    THEN [tag |-> "Some", start |-> start, end |-> end, str |-> SubSeq(s, start + 1, end)]
    ELSE [tag |-> "Panic", start |-> start, end |-> end, str |-> <<>>]

None == [tag |-> "None", start |-> 0, end |-> 0, str |-> <<>>]

----------------------------------------------------------------------------
(* Components: the iterator.                                               *)

\* RelativePath::new: the str viewed as a path, content unchanged.
RelativePath_new(s) == s

\* From<String> for RelativePathBuf: the buffer whose inner is the string.
RelativePathBuf_from(value) == value

\* RelativePath::components; iter is the byte position of CharIndices.
RelativePath_components(self) ==
    [iter |-> 0, source |-> self, last_slash |-> TRUE, offset |-> 0]

\* RelativePathBuf::components.
RelativePathBuf_components(self) ==
    [iter |-> 0, source |-> self, last_slash |-> TRUE, offset |-> 0]

\* A slip in Components::next: `self.last_slash = true` is forgotten when a
\* component is emitted at a separator.
RECURSIVE Components_next_KeepsFlag(_)
Components_next_KeepsFlag(self) ==
    IF self.iter < Len(self.source)
    THEN LET i == self.iter
             c == CharAt(self.source, i)
             adv == [self EXCEPT !.iter = i + Utf8Width(self.source[i + 1])]
         IN  IF c = SEP
             THEN IF ~self.last_slash
                  THEN [self |-> [adv EXCEPT !.offset = i],
                        item |-> Slice(self.source, self.offset, i)]
                  ELSE Components_next_KeepsFlag(adv)
             ELSE IF self.last_slash
                  THEN Components_next_KeepsFlag([adv EXCEPT !.last_slash = FALSE, !.offset = i])
                  ELSE Components_next_KeepsFlag(adv)
    ELSE IF Len(self.source) > self.offset
         THEN IF self.last_slash
              THEN [self |-> [self EXCEPT !.offset = Len(self.source)], item |-> None]
              ELSE [self |-> [self EXCEPT !.offset = Len(self.source)],
                    item |-> Slice(self.source, self.offset, Len(self.source))]
         ELSE [self |-> self, item |-> None]

\* A slip in Components::next: the trailing component is returned without
\* `self.offset = self.source.len()`.
RECURSIVE Components_next_KeepsOffset(_)
Components_next_KeepsOffset(self) ==
    IF self.iter < Len(self.source)
    THEN LET i == self.iter
             c == CharAt(self.source, i)
             adv == [self EXCEPT !.iter = i + Utf8Width(self.source[i + 1])]
         IN  IF c = SEP
             THEN IF ~self.last_slash
                  THEN [self |-> [adv EXCEPT !.offset = i, !.last_slash = TRUE],
                        item |-> Slice(self.source, self.offset, i)]
                  ELSE Components_next_KeepsOffset(adv)
             ELSE IF self.last_slash
                  THEN Components_next_KeepsOffset([adv EXCEPT !.last_slash = FALSE, !.offset = i])
                  ELSE Components_next_KeepsOffset(adv)
    ELSE IF Len(self.source) > self.offset
         THEN IF self.last_slash
              THEN [self |-> [self EXCEPT !.offset = Len(self.source)], item |-> None]
              ELSE [self |-> self,
                    item |-> Slice(self.source, self.offset, Len(self.source))]
         ELSE [self |-> self, item |-> None]

\* Components::next: the new iterator and the returned item.
RECURSIVE Components_next(_)
Components_next(self) ==
    IF self.iter < Len(self.source)
    THEN \* while let Some((i, c)) = self.iter.next()
         LET i == self.iter
             c == CharAt(self.source, i)
             adv == [self EXCEPT !.iter = i + Utf8Width(self.source[i + 1])]
         IN  IF c = SEP
             THEN IF ~self.last_slash
                  THEN [self |-> [adv EXCEPT !.offset = i, !.last_slash = TRUE],
                        item |-> Slice(self.source, self.offset, i)]
                  ELSE Components_next(adv)
             ELSE IF self.last_slash
                  THEN Components_next([adv EXCEPT !.last_slash = FALSE, !.offset = i])
                  ELSE Components_next(adv)
    ELSE IF Len(self.source) > self.offset
         THEN IF self.last_slash
              THEN [self |-> [self EXCEPT !.offset = Len(self.source)], item |-> None]
              ELSE [self |-> [self EXCEPT !.offset = Len(self.source)],
                    item |-> Slice(self.source, self.offset, Len(self.source))]
         ELSE [self |-> self, item |-> None]

\* Iterator::collect::<Vec<_>>() on a Components value (tests, line 452).
RECURSIVE Components_collect(_)
Components_collect(c) ==
    LET r == Components_next(c)
    IN  IF r.item.tag = "Some"
        THEN <<r.item.str>> \o Components_collect(r.self)
        ELSE <<>>

----------------------------------------------------------------------------
(* RelativePath and RelativePathBuf.  A path value is its inner text.      *)

\* RelativePathBuf::new
RelativePathBuf_new == <<>>

\* A slip in is_absolute: the empty path counts as absolute.
RelativePath_is_absolute_OrEmpty(self) ==
    Len(self) = 0 \/ CharAt(self, 0) = SEP

\* RelativePath::is_absolute (RelativePathBuf::is_absolute is the same code).
RelativePath_is_absolute(self) ==
    Len(self) > 0 /\ CharAt(self, 0) = SEP

\* RelativePath::to_relative_path_buf
RelativePath_to_relative_path_buf(self) == RelativePathBuf_from(self)

\* RelativePathBuf::to_relative_path_buf
RelativePathBuf_to_relative_path_buf(self) == RelativePathBuf_from(self)

\* A slip in push: the separator is never inserted.
RelativePathBuf_push_NoSep(self, path) ==
    LET other == path
    IN  IF RelativePath_is_absolute(other) THEN other ELSE self \o other

\* A slip in push: `self.inner.clear()` is forgotten for an absolute path.
RelativePathBuf_push_NoClear(self, path) ==
    LET other == path
    IN  IF RelativePath_is_absolute(other)
        THEN self \o other
        ELSE (IF Len(self) > 0 THEN self \o <<SEP>> ELSE self) \o other

\* RelativePathBuf::push: the buffer's inner after the call.
RelativePathBuf_push(self, path) ==
    LET other == path
    IN  IF RelativePath_is_absolute(other)
        THEN <<>> \o other
        ELSE (IF Len(self) > 0 THEN self \o <<SEP>> ELSE self) \o other

\* A slip in RelativePathBuf::join: the push is made on self, not on a copy.
RelativePathBuf_join_InPlace(self, path) ==
    [self |-> RelativePathBuf_push(self, path), out |-> RelativePathBuf_push(self, path)]

\* RelativePathBuf::join: self after the call and the returned buffer.
RelativePathBuf_join(self, path) ==
    LET out == RelativePathBuf_to_relative_path_buf(self)
    IN  [self |-> self, out |-> RelativePathBuf_push(out, path)]

\* A slip in RelativePath::join: the early return hands back self.
RelativePath_join_ReturnsSelf(self, path) ==
    LET p == path
    IN  IF RelativePath_is_absolute(p)
        THEN [self |-> self, out |-> RelativePath_to_relative_path_buf(self)]
        ELSE [self |-> self,
              out |-> RelativePathBuf_push(RelativePath_to_relative_path_buf(self), p)]

\* RelativePath::join: self after the call and the returned buffer.
RelativePath_join(self, path) ==
    LET p == path
    IN  IF RelativePath_is_absolute(p)
        THEN [self |-> self, out |-> RelativePath_to_relative_path_buf(p)]
        ELSE [self |-> self,
              out |-> RelativePathBuf_push(RelativePath_to_relative_path_buf(self), p)]

----------------------------------------------------------------------------
(* The native path (std::path::PathBuf, Unix): its bytes.                  *)

\* PathBuf::push on Unix: an absolute argument replaces the path, otherwise
\* it is appended after a separator unless the path is empty or ends in one.
PathBuf_push(p, path) ==
    IF Len(path) > 0 /\ path[1] = SEP THEN path
    ELSE IF Len(p) > 0 /\ p[Len(p)] # SEP THEN p \o <<SEP>> \o path
    ELSE p \o path

\* Path::join: push on a copy (tests, line 486).
Path_join(p, path) == PathBuf_push(p, path)

\* PathBuf::extend with a Components iterator: the path and the segments
\* the iterator fed to it.
RECURSIVE PathBuf_extend(_, _, _)
PathBuf_extend(p, fed, c) ==
    LET r == Components_next(c)
    IN  IF r.item.tag = "Some"
        THEN PathBuf_extend(PathBuf_push(p, r.item.str), Append(fed, r.item.str), r.self)
        ELSE [out |-> p, fed |-> fed]

\* A slip in to_relative_of: the raw text is pushed, not its components.
RelativePath_to_relative_of_Raw(self, relative_to) ==
    [out |-> PathBuf_push(relative_to, self), fed |-> <<self>>]

\* RelativePath::to_relative_of
RelativePath_to_relative_of(self, relative_to) ==
    LET p == relative_to
    IN  PathBuf_extend(p, <<>>, RelativePath_components(self))

\* RelativePathBuf::to_relative_of
RelativePathBuf_to_relative_of(self, relative_to) ==
    LET p == relative_to
    IN  PathBuf_extend(p, <<>>, RelativePathBuf_components(self))

----------------------------------------------------------------------------
(* The iterator driven call by call.                                       *)

Idle == [op |-> "none"]

\* No iterator has been asked for yet.
InitIter ==
    /\ components = RelativePath_components(RelativePath_new(<<>>))
    /\ item = [tag |-> "Idle", start |-> 0, end |-> 0, str |-> <<>>]
    /\ yielded = <<>>
    /\ calls = 0
    /\ inner = <<>>
    /\ pushed = <<>>
    /\ last = Idle

Started == [tag |-> "Start", start |-> 0, end |-> 0, str |-> <<>>]

\* RelativePath::new(s).components()
ComponentsOfPath ==
    /\ item.tag = "Idle"
    /\ \E s \in Strs(Chars, MaxLen) :
          components' = RelativePath_components(RelativePath_new(s))
    /\ item' = Started
    /\ UNCHANGED <<yielded, calls, inner, pushed, last>>

\* RelativePathBuf::from(s).components()
ComponentsOfBuf ==
    /\ item.tag = "Idle"
    /\ \E s \in Strs(Chars, MaxLen) :
          components' = RelativePathBuf_components(RelativePathBuf_from(s))
    /\ item' = Started
    /\ UNCHANGED <<yielded, calls, inner, pushed, last>>

\* One call of Components::next.  The caller stops calling two calls after
\* the longest possible run of Some results.
CallNext ==
    /\ item.tag # "Idle"
    /\ calls < Len(components.source) + 2
    /\ LET r == Components_next(components)
       IN  /\ components' = r.self
           /\ item' = r.item
           /\ yielded' = IF r.item.tag = "Some" THEN Append(yielded, r.item.str) ELSE yielded
    /\ calls' = calls + 1
    /\ UNCHANGED <<inner, pushed, last>>

NextIter == ComponentsOfPath \/ ComponentsOfBuf \/ CallNext

SpecIter == InitIter /\ [][NextIter]_vars

FairSpecIter == SpecIter /\ WF_vars(CallNext)

----------------------------------------------------------------------------
(* A path buffer under new / from / push / join / to_relative_of.          *)

Op(op, self, path, out) == [op |-> op, self |-> self, path |-> path, out |-> out]

\* The paths handed to push, join and from.
Args == Strs(Chars, MaxArg)

\* The native base paths: "", "." and "./".
Bases == {<<>>, <<46>>, <<46, SEP>>}

Init ==
    /\ inner = RelativePathBuf_new
    /\ last = Op("new", <<>>, <<>>, RelativePathBuf_new)
    /\ pushed = <<>>
    /\ components = RelativePathBuf_components(RelativePathBuf_new)
    /\ item = None
    /\ yielded = <<>>
    /\ calls = 0

New ==
    /\ inner' = RelativePathBuf_new
    /\ last' = Op("new", <<>>, <<>>, RelativePathBuf_new)
    /\ UNCHANGED <<components, item, yielded, calls, pushed>>

From ==
    \E s \in Args :
        /\ inner' = RelativePathBuf_from(s)
        /\ last' = Op("from", <<>>, s, RelativePathBuf_from(s))
        /\ UNCHANGED <<components, item, yielded, calls, pushed>>

\* push is tried while the result fits the buffer bound.
Push ==
    \E p \in Args :
        /\ Len(RelativePathBuf_push(inner, RelativePath_new(p))) <= MaxInner
        /\ inner' = RelativePathBuf_push(inner, RelativePath_new(p))
        /\ last' = Op("push", inner, p, inner')
        /\ UNCHANGED <<components, item, yielded, calls, pushed>>

JoinBuf ==
    \E p \in Args :
        LET r == RelativePathBuf_join(inner, RelativePath_new(p))
        IN  /\ inner' = r.self
            /\ last' = Op("RelativePathBuf::join", inner, p, r.out)
            /\ UNCHANGED <<components, item, yielded, calls, pushed>>

\* RelativePath::join on the buffer's content viewed as a RelativePath (Deref).
JoinPath ==
    \E p \in Args :
        LET r == RelativePath_join(RelativePath_new(inner), RelativePath_new(p))
        IN  /\ inner' = r.self
            /\ last' = Op("RelativePath::join", inner, p, r.out)
            /\ UNCHANGED <<components, item, yielded, calls, pushed>>

ToRelativeOf ==
    \E base \in Bases :
        /\ last' = Op("RelativePath::to_relative_of", inner, base,
                       RelativePath_to_relative_of(RelativePath_new(inner), base))
        /\ UNCHANGED <<inner, components, item, yielded, calls, pushed>>

ToRelativeOfBuf ==
    \E base \in Bases :
        /\ last' = Op("RelativePathBuf::to_relative_of", inner, base,
                       RelativePathBuf_to_relative_of(inner, base))
        /\ UNCHANGED <<inner, components, item, yielded, calls, pushed>>

Next ==
    \/ New
    \/ From
    \/ Push
    \/ JoinBuf
    \/ JoinPath
    \/ ToRelativeOf
    \/ ToRelativeOfBuf

Spec == Init /\ [][Next]_vars

----------------------------------------------------------------------------
(* A buffer built from new() by pushes only, with the pushes recorded.     *)

\* The paths pushed: texts over '/' and 'a'.
PushArgs == Strs({<<SEP>>, <<97>>}, MaxArg)

InitPush ==
    /\ inner = RelativePathBuf_new
    /\ pushed = <<>>
    /\ last = Op("new", <<>>, <<>>, RelativePathBuf_new)
    /\ components = RelativePathBuf_components(RelativePathBuf_new)
    /\ item = None
    /\ yielded = <<>>
    /\ calls = 0

NewLogged ==
    /\ inner' = RelativePathBuf_new
    /\ pushed' = <<>>
    /\ last' = Op("new", <<>>, <<>>, RelativePathBuf_new)
    /\ UNCHANGED <<components, item, yielded, calls>>

PushLogged ==
    \E p \in PushArgs :
        /\ Len(pushed) < MaxPushes
        /\ inner' = RelativePathBuf_push(inner, RelativePath_new(p))
        /\ pushed' = Append(pushed, p)
        /\ last' = Op("push", inner, p, inner')
        /\ UNCHANGED <<components, item, yielded, calls>>

NextPush == NewLogged \/ PushLogged

SpecPush == InitPush /\ [][NextPush]_vars

----------------------------------------------------------------------------
(* Equality and ordering.                                                  *)

\* Iterator::eq on two Components values (called at line 79 on clones).
RECURSIVE Iterator_eq(_, _)
Iterator_eq(a, b) ==
    LET x == Components_next(a)
        y == Components_next(b)
    IN  IF x.item.tag # "Some" THEN y.item.tag # "Some"
        ELSE IF y.item.tag # "Some" THEN FALSE
        ELSE IF x.item.str # y.item.str THEN FALSE
        ELSE Iterator_eq(x.self, y.self)

\* PartialEq for Components
Components_eq(self, other) == Iterator_eq(self, other)

\* Ord for str: byte-wise lexicographic.
RECURSIVE str_cmp(_, _)
str_cmp(x, y) ==
    IF x = <<>> THEN (IF y = <<>> THEN "Equal" ELSE "Less")
    ELSE IF y = <<>> THEN "Greater"
    ELSE IF x[1] < y[1] THEN "Less"
    ELSE IF x[1] > y[1] THEN "Greater"
    ELSE str_cmp(Tail(x), Tail(y))

\* Iterator::cmp on two Components values (called at lines 213 and 361).
RECURSIVE Iterator_cmp(_, _)
Iterator_cmp(a, b) ==
    LET x == Components_next(a)
        y == Components_next(b)
    IN  IF x.item.tag # "Some"
        THEN (IF y.item.tag # "Some" THEN "Equal" ELSE "Less")
        ELSE IF y.item.tag # "Some" THEN "Greater"
        ELSE IF str_cmp(x.item.str, y.item.str) # "Equal"
             THEN str_cmp(x.item.str, y.item.str)
             ELSE Iterator_cmp(x.self, y.self)

\* A slip in eq: the raw texts are compared.
RelativePath_eq_Raw(self, other) == self = other

\* PartialEq for RelativePath
RelativePath_eq(self, other) ==
    Components_eq(RelativePath_components(self), RelativePath_components(other))

\* PartialEq for RelativePathBuf
RelativePathBuf_eq(self, other) ==
    Components_eq(RelativePathBuf_components(self), RelativePathBuf_components(other))

\* impl_cmp!: eq between the path types, through Deref to RelativePath.
impl_cmp_eq(self, other) == RelativePath_eq(self, other)

\* impl_cmp_str!: eq between a path and a str or String.
impl_cmp_str_eq(self, other) == RelativePath_eq(self, RelativePath_new(other))

\* A slip in cmp: the raw texts are compared.
RelativePath_cmp_Raw(self, other) == str_cmp(self, other)

\* Ord for RelativePath
RelativePath_cmp(self, other) ==
    Iterator_cmp(RelativePath_components(self), RelativePath_components(other))

\* Ord for RelativePathBuf
RelativePathBuf_cmp(self, other) ==
    Iterator_cmp(RelativePathBuf_components(self), RelativePathBuf_components(other))

\* The paths compared: texts over '.', '/' and 'a'.
CmpPaths == Strs(Ascii, CmpLen)

\* The two paths to compare are drawn first; each operation is then applied
\* to them.
InitCmp ==
    /\ \E a \in CmpPaths, b \in CmpPaths : last = Op("input", a, b, FALSE)
    /\ inner = RelativePathBuf_new
    /\ pushed = <<>>
    /\ components = RelativePathBuf_components(RelativePathBuf_new)
    /\ item = None
    /\ yielded = <<>>
    /\ calls = 0

Unused == <<inner, pushed, components, item, yielded, calls>>

EqPath ==
    /\ last.op = "input"
    /\ last' = Op("eq", last.self, last.path,
                   RelativePath_eq(RelativePath_new(last.self), RelativePath_new(last.path)))
    /\ UNCHANGED Unused

EqBuf ==
    /\ last.op = "input"
    /\ last' = Op("eq_buf", last.self, last.path,
                   RelativePathBuf_eq(RelativePathBuf_from(last.self),
                                      RelativePathBuf_from(last.path)))
    /\ UNCHANGED Unused

EqMixed ==
    /\ last.op = "input"
    /\ last' = Op("eq_mixed", last.self, last.path,
                   impl_cmp_eq(RelativePathBuf_from(last.self), RelativePath_new(last.path)))
    /\ UNCHANGED Unused

EqStr ==
    /\ last.op = "input"
    /\ last' = Op("eq_str", last.self, last.path,
                   impl_cmp_str_eq(RelativePath_new(last.self), last.path))
    /\ UNCHANGED Unused

\* A path against its own to_relative_path_buf() (tests, line 495).
EqOwnedCopy ==
    /\ last.op = "input"
    /\ last' = Op("eq_copy", last.self,
                   RelativePath_to_relative_path_buf(RelativePath_new(last.self)),
                   impl_cmp_eq(RelativePath_new(last.self),
                               RelativePath_to_relative_path_buf(RelativePath_new(last.self))))
    /\ UNCHANGED Unused

\* cmp on each pair of the two paths and a third one.
CmpPath ==
    /\ last.op = "input"
    /\ \E c \in Strs(Ascii, ThirdLen) :
          LET a == RelativePath_new(last.self)
              b == RelativePath_new(last.path)
          IN  last' = [op |-> "cmp", self |-> a, path |-> b, third |-> c,
                       out |-> [ab |-> RelativePath_cmp(a, b), ba |-> RelativePath_cmp(b, a),
                                bc |-> RelativePath_cmp(b, c), ac |-> RelativePath_cmp(a, c)]]
    /\ UNCHANGED Unused

CmpBuf ==
    /\ last.op = "input"
    /\ last' = Op("cmp_buf", last.self, last.path,
                   RelativePathBuf_cmp(RelativePathBuf_from(last.self),
                                       RelativePathBuf_from(last.path)))
    /\ UNCHANGED Unused

NextCmp == EqPath \/ EqBuf \/ EqMixed \/ EqStr \/ EqOwnedCopy \/ CmpPath \/ CmpBuf

SpecCmp == InitCmp /\ [][NextCmp]_vars

----------------------------------------------------------------------------
(* Reference notions the claims are stated with.                           *)

\* The maximal non-empty runs of non-'/' bytes of s, as pairs <<start, end>>.
Runs(s) ==
    {r \in (0..Len(s)) \X (0..Len(s)) :
        /\ r[1] < r[2]
        /\ \A k \in (r[1] + 1)..r[2] : s[k] # SEP
        /\ r[1] = 0 \/ s[r[1]] = SEP
        /\ r[2] = Len(s) \/ s[r[2] + 1] = SEP}

\* s split on '/' with the empty pieces removed, left to right.
Pieces(s) ==
    LET R == Runs(s)
    IN  [k \in 1..Cardinality(R) |->
            LET r == CHOOSE q \in R : Cardinality({p \in R : p[1] < q[1]}) = k - 1
            IN  SubSeq(s, r[1] + 1, r[2])]

IsPrefix(p, q) == Len(p) <= Len(q) /\ SubSeq(q, 1, Len(p)) = p

\* Number of characters of s (bytes that start a character).
NumChars(s) == Cardinality({k \in 1..Len(s) : s[k] < 128 \/ s[k] >= 192})

\* The component sequence of a path, as the program derives it.
Comps(path) == Components_collect(RelativePath_components(path))

\* Syntactic absoluteness: the first byte is '/'.
StartsWithSep(s) == s # <<>> /\ s[1] = SEP

\* x sorts strictly before y, element by element, a proper prefix first.
LexLess(x, y, Lt(_, _)) ==
    \E k \in 1..Len(y) :
        /\ k <= Len(x) + 1
        /\ \A j \in 1..(k - 1) : x[j] = y[j]
        /\ k = Len(x) + 1 \/ Lt(x[k], y[k])

IntLess(m, n) == m < n

StrLess(x, y) == LexLess(x, y, IntLess)

\* Lexicographic comparison of two sequences of strings.
RefCmp(P, Q) ==
    IF P = Q THEN "Equal"
    ELSE IF LexLess(P, Q, StrLess) THEN "Less"
    ELSE "Greater"

Reverse(o) == IF o = "Less" THEN "Greater" ELSE IF o = "Greater" THEN "Less" ELSE o

\* Path::new(base).join(s1).join(s2)...
RECURSIVE JoinAll(_, _)
JoinAll(base, segs) ==
    IF segs = <<>> THEN base ELSE JoinAll(Path_join(base, Head(segs)), Tail(segs))

\* Concatenation of the pieces of h[k], ..., h[Len(h)].
RECURSIVE PiecesFrom(_, _)
PiecesFrom(h, k) ==
    IF k > Len(h) THEN <<>> ELSE Pieces(h[k]) \o PiecesFrom(h, k + 1)

\* Index of the last absolute path of h, 1 if there is none.
LastAbsolute(h) ==
    LET I == {i \in 1..Len(h) : StartsWithSep(h[i])}
    IN  IF I = {} THEN 1 ELSE CHOOSE i \in I : \A j \in I : j <= i

IsJoin == last.op \in {"RelativePath::join", "RelativePathBuf::join"}

----------------------------------------------------------------------------
(* C1: whatever components() has yielded so far is the leading part of the *)
(* source split on '/' with the empty pieces removed, and once next has    *)
(* returned None it is the whole of it; no component is empty or holds a   *)
(* '/'.                                                                    *)
C1_ComponentsAreRuns ==
    /\ IsPrefix(yielded, Pieces(components.source))
    /\ item.tag = "None" => yielded = Pieces(components.source)
    /\ \A k \in 1..Len(yielded) :
          yielded[k] # <<>> /\ \A j \in 1..Len(yielded[k]) : yielded[k][j] # SEP

\* "/a//\u{e9}" fully decomposed into "a", "\u{e9}".
C1_Witness ==
    /\ components.source = <<SEP, 97, SEP, SEP, 195, 169>>
    /\ item.tag = "None"
    /\ yielded = << <<97>>, <<195, 169>> >>

(* C2: joining an absolute path onto any base returns that path's text     *)
(* unchanged, so the result's components are those of the argument and     *)
(* nothing of the base is left.                                            *)
C2_JoinAbsoluteResets ==
    (IsJoin /\ StartsWithSep(last.path)) =>
        /\ last.out = last.path
        /\ Comps(last.out) = Pieces(last.path)

\* "a/\u{e9}" joined with "/a".
C2_Witness ==
    /\ last.op = "RelativePath::join"
    /\ last.self = <<97, SEP, 195, 169>>
    /\ last.path = <<SEP, 97>>
    /\ last.out = <<SEP, 97>>

(* C3: joining (or pushing) a non-absolute path gives the base's text, one *)
(* '/' exactly when the base is non-empty, then the argument's text; the   *)
(* result's components are the base's followed by the argument's.          *)
C3_JoinRelativeAppends ==
    ((IsJoin \/ last.op = "push") /\ ~StartsWithSep(last.path)) =>
        /\ last.out = last.self \o (IF last.self # <<>> THEN <<SEP>> ELSE <<>>) \o last.path
        /\ Comps(last.out) = Comps(last.self) \o Comps(last.path)

\* "a/" joined with "\u{e9}/": a doubled separator in the text, two components.
C3_Witness ==
    /\ last.op = "RelativePath::join"
    /\ last.self = <<97, SEP>>
    /\ last.path = <<195, 169, SEP>>
    /\ last.out = <<97, SEP, SEP, 195, 169, SEP>>
    /\ Comps(last.out) = << <<97>>, <<195, 169>> >>

(* C6: push("") leaves the component sequence of the buffer as it was,     *)
(* whatever the buffer holds, also when it already ends in separators of   *)
(* earlier empty pushes.                                                   *)
C6_PushEmptyKeepsComponents ==
    (last.op = "push" /\ last.path = <<>>) =>
        /\ Comps(inner) = Comps(last.self)
        /\ Comps(inner) = Pieces(last.self)

\* A second push("") onto the absolute "/a/".
C6_Witness ==
    /\ last.op = "push"
    /\ last.path = <<>>
    /\ last.self = <<SEP, 97, SEP>>
    /\ inner = <<SEP, 97, SEP, SEP>>

(* C7: to_relative_of feeds the native path exactly the components of the  *)
(* path, each non-empty and free of '/', and returns the base joined with  *)
(* them one by one; the base is never replaced.                            *)
C7_ToRelativeOfExtendsBase ==
    (last.op \in {"RelativePath::to_relative_of", "RelativePathBuf::to_relative_of"}) =>
        /\ last.out.fed = Pieces(last.self)
        /\ \A k \in 1..Len(last.out.fed) :
              last.out.fed[k] # <<>> /\ \A j \in 1..Len(last.out.fed[k]) : last.out.fed[k][j] # SEP
        /\ last.out.out = JoinAll(last.path, Pieces(last.self))
        /\ IsPrefix(last.path, last.out.out)

\* "/a//a/" relative to "." is "./a/a".
C7_Witness ==
    /\ last.op = "RelativePath::to_relative_of"
    /\ last.self = <<SEP, 97, SEP, SEP, 97, SEP>>
    /\ last.path = <<46>>
    /\ last.out.out = <<46, SEP, 97, SEP, 97>>

(* C8: both join methods return the same text, that of a copy of the base  *)
(* after push, and the base holds after the call what it held before.      *)
C8_JoinsAgree ==
    /\ last.op = "RelativePathBuf::join" =>
          /\ last.out = RelativePath_join(last.self, last.path).out
          /\ last.out = RelativePathBuf_push(RelativePathBuf_from(last.self), last.path)
          /\ inner = last.self
    /\ last.op = "RelativePath::join" =>
          /\ last.out = RelativePathBuf_join(last.self, last.path).out
          /\ last.out = RelativePathBuf_push(RelativePathBuf_from(last.self), last.path)
          /\ inner = last.self

\* RelativePathBuf::join of "a/" with the absolute "/\u{e9}".
C8_Witness ==
    /\ last.op = "RelativePathBuf::join"
    /\ last.self = <<97, SEP>>
    /\ last.path = <<SEP, 195, 169>>
    /\ inner = <<97, SEP>>

(* C10: after new() and pushes p1..pn the buffer's components are those of *)
(* pk..pn concatenated, k the last absolute push (1 if none), and the      *)
(* buffer is absolute exactly when some pi is; with no push it is empty.   *)
C10_PushHistory ==
    /\ Comps(inner) = PiecesFrom(pushed, LastAbsolute(pushed))
    /\ RelativePath_is_absolute(inner) <=> \E i \in 1..Len(pushed) : StartsWithSep(pushed[i])
    /\ pushed = <<>> => inner = <<>>

\* push("a"), push("/a"), push("aa"): the first push is dropped.
C10_Witness ==
    /\ pushed = << <<97>>, <<SEP, 97>>, <<97, 97>> >>
    /\ Comps(inner) = << <<97>>, <<97, 97>> >>

(* C4: eq, between any pairing of the path types and str, holds exactly    *)
(* when the two component sequences are equal; a copy made by              *)
(* to_relative_path_buf() equals its original.                             *)
C4_EqIsComponentEquality ==
    /\ last.op \in {"eq", "eq_buf", "eq_mixed", "eq_str"} =>
          (last.out <=> Pieces(last.self) = Pieces(last.path))
    /\ last.op = "eq_copy" => (last.out /\ last.path = last.self)

\* "//a" == "a/".
C4_Witness ==
    /\ last.op = "eq"
    /\ last.self = <<SEP, SEP, 97>>
    /\ last.path = <<97, SEP>>
    /\ last.out

(* C5: cmp is the lexicographic comparison of the component sequences; it  *)
(* is Equal exactly when eq holds, cmp(B, A) is its reverse, and it is     *)
(* transitive.                                                             *)
C5_CmpIsLexicographic ==
    /\ last.op = "cmp" =>
          /\ last.out.ab = RefCmp(Pieces(last.self), Pieces(last.path))
          /\ last.out.ab \in {"Less", "Equal", "Greater"}
          /\ last.out.ab = "Equal" <=> RelativePath_eq(last.self, last.path)
          /\ last.out.ba = Reverse(last.out.ab)
          /\ (last.out.ab = "Less" /\ last.out.bc = "Less") => last.out.ac = "Less"
          /\ (last.out.ab # "Greater" /\ last.out.bc # "Greater") => last.out.ac # "Greater"
          /\ (last.out.ab = "Equal" /\ last.out.bc = "Equal") => last.out.ac = "Equal"
    /\ last.op = "cmp_buf" =>
          last.out = RefCmp(Pieces(last.self), Pieces(last.path))

\* "a/a" < "a.a" < "aa" by components, although "a.a" < "a/a" as text.
C5_Witness ==
    /\ last.op = "cmp"
    /\ last.self = <<97, SEP, 97>>
    /\ last.path = <<97, 46, 97>>
    /\ last.third = <<97, 97>>
    /\ last.out.ab = "Less"
    /\ last.out.bc = "Less"
    /\ last.out.ac = "Less"

(* C9: next never panics, keeps offset within the source and only returns  *)
(* non-empty slices; it returns Some at most once per character; once it   *)
(* has returned None it returns None on every later call; and repeated     *)
(* calls eventually return None.                                           *)
C9_Safe ==
    /\ components.offset <= Len(components.source)
    /\ item.tag # "Panic"
    /\ item.tag = "Some" => item.start < item.end
    /\ Len(yielded) <= NumChars(components.source)

(* C9, as one formula: the safety part above in every state, None stays    *)
(* None from call to call, and an iterator that has been created leads to  *)
(* a call of next that returns None.                                       *)
C9_NextTerminates ==
    /\ []C9_Safe
    /\ [][item.tag = "None" => item'.tag = "None"]_vars
    /\ (item.tag = "Start") ~> (item.tag = "None")

\* None returned a second time after two components.
C9_Witness ==
    /\ item.tag = "None"
    /\ Len(yielded) = 2
    /\ calls = 4

====
